---------------------------- MODULE Spec2Model ----------------------------
(***************************************************************************)
(* Model of src/f4m.py: the byte cursor RawDataIterator and the F4V box    *)
(* decoders F4VBox, F4VBootstrapInfoBox, F4VSegmentRunTableBox and         *)
(* F4VFragmentRunTableBox.                                                 *)
(*                                                                         *)
(* The source is Python 2: the buffer is a byte string, data[i] is a       *)
(* one-byte string and data[a:b] a (possibly shorter) byte string.  A byte *)
(* is modelled by its number, a byte string by a sequence of numbers.      *)
(* Python exceptions are modelled by their names ("IndexError",            *)
(* "struct.error", "TypeError"); "none" means that nothing was raised.     *)
(*                                                                         *)
(* TLC's integers have 32 bits.  All bytes of the model's buffers are at   *)
(* most 127, so that every big-endian 32-bit word stays below 2^31; a      *)
(* 64-bit value is kept as the pair <<high word, low word>>.               *)
(***************************************************************************)
EXTENDS Integers, Sequences, FiniteSets, TLC

VARIABLES
    data,       \* RawDataIterator.data: the buffer
    index,      \* RawDataIterator.index: the read offset
    last,       \* the last cursor call: its name, argument, index before, outcome
    pc,         \* position of the decoder in the constructors' code
    err,        \* the exception that ended the decode, "none" while there is none
    box,        \* the F4VBootstrapInfoBox under construction (its attributes so far)
    cur,        \* the nested run-table box under construction
    result,     \* Manifest.bootstrapBox: None until the constructor has returned
    order,      \* history: the schema fields in the order they were read
    consumed,   \* history: number of buffer bytes the reads have returned or scanned
    lastTerm,   \* history: position of the last string terminator that was consumed
    phase       \* 1: decode of the buffer as given; 2: decode of its truncation

vars == <<data, index, last, pc, err, box, cur, result, order, consumed,
          lastTerm, phase>>

None == "None"

\* Python values whose type a claim tells apart.
PyNone == [type |-> "NoneType"]
PyInt(x) == [type |-> "int", v |-> x]
PyTuple(items) == [type |-> "tuple", items |-> items]
PyObject(class, attrs) == [type |-> class, attrs |-> attrs]

Min(a, b) == IF a < b THEN a ELSE b
Max(a, b) == IF a < b THEN b ELSE a

(***************************************************************************)
(* Python's sequence semantics.                                            *)
(***************************************************************************)

\* The clamping of a slice bound: a negative bound counts from the end.
PyNorm(x, n) == IF x < 0 THEN Max(x + n, 0) ELSE Min(x, n)

\* data[s:e]: never fails, silently shorter when the buffer is.
PySlice(d, s, e) ==
    LET a == PyNorm(s, Len(d))
        b == PyNorm(e, Len(d))
    IN  IF a < b THEN SubSeq(d, a + 1, b) ELSE <<>>

\* data[i] is defined for -len <= i < len, else IndexError.
PyIndexOk(d, i) == (-Len(d)) <= i /\ i < Len(d)
PyIndex(d, i) == IF i < 0 THEN d[Len(d) + i + 1] ELSE d[i + 1]

\* Big-endian value of a byte string.
RECURSIVE BigEndian(_)
BigEndian(bs) ==
    IF bs = <<>> THEN 0
    ELSE BigEndian(SubSeq(bs, 1, Len(bs) - 1)) * 256 + bs[Len(bs)]

\* struct.unpack(pattern, bytes)[0] for '>B', '>H', '>I', '>Q'; the byte
\* string must have exactly the pattern's size.
PatternSize(pattern) ==
    CASE pattern = ">B" -> 1
      [] pattern = ">H" -> 2
      [] pattern = ">I" -> 4
      [] pattern = ">Q" -> 8

unpack(pattern, bs) ==
    IF pattern = ">Q"
    THEN <<BigEndian(SubSeq(bs, 1, 4)), BigEndian(SubSeq(bs, 5, 8))>>
    ELSE BigEndian(bs)

(***************************************************************************)
(* RawDataIterator: each method as a function of (data, index) giving the  *)
(* index it leaves, whether it returned (ok), the value or the exception,  *)
(* and the number of buffer bytes it actually took (got).                  *)
(***************************************************************************)

\* _read(pattern, size): the index is moved before the bytes are unpacked.
_read(d, i, pattern, size) ==
    LET bs == PySlice(d, i, i + size)
        ok == Len(bs) = PatternSize(pattern)
    IN  [idx |-> i + size, ok |-> ok,
         val |-> IF ok THEN unpack(pattern, bs) ELSE None,
         err |-> IF ok THEN "none" ELSE "struct.error",
         got |-> Len(bs)]

\* readUI2 calls _read with one argument too few: TypeError, nothing moves.
readUI2(d, i) ==
    [idx |-> i, ok |-> FALSE, val |-> None, err |-> "TypeError", got |-> 0]

readUI8(d, i)  == _read(d, i, ">B", 1)
readUI16(d, i) == _read(d, i, ">H", 2)
readUI32(d, i) == _read(d, i, ">I", 4)
readUI64(d, i) == _read(d, i, ">Q", 8)

\* read(size): moves the index by size and returns the slice, whatever its length.
read(d, i, size) ==
    [idx |-> i + size, ok |-> TRUE, val |-> PySlice(d, i, i + size),
     err |-> "none", got |-> Len(PySlice(d, i, i + size))]

\* remaining(): read(len(data) - index).
remaining(d, i) == read(d, i, Len(d) - i)

\* A loop that leaves the terminator in the buffer.
RECURSIVE MutNullStringKeepsTerminator(_, _, _, _)
MutNullStringKeepsTerminator(d, i, acc, n) ==
    IF ~PyIndexOk(d, i)
    THEN [idx |-> i, ok |-> FALSE, val |-> None, err |-> "IndexError", got |-> n]
    ELSE IF PyIndex(d, i) = 0
         THEN [idx |-> i, ok |-> TRUE, val |-> acc, err |-> "none", got |-> n]
         ELSE MutNullStringKeepsTerminator(d, i + 1, Append(acc, PyIndex(d, i)),
                                           n + 1)

\* readNullString(): the loop of lines 57-65, one byte per iteration.
RECURSIVE NullStringLoop(_, _, _, _)
NullStringLoop(d, i, acc, n) ==
    IF ~PyIndexOk(d, i)
    THEN [idx |-> i, ok |-> FALSE, val |-> None, err |-> "IndexError", got |-> n]
    ELSE IF PyIndex(d, i) = 0
         THEN [idx |-> i + 1, ok |-> TRUE, val |-> acc, err |-> "none",
               got |-> n + 1]
         ELSE NullStringLoop(d, i + 1, Append(acc, PyIndex(d, i)), n + 1)

\* A reader that takes the end of the buffer for a terminator.
MutReadNullStringPadded(d, i) == NullStringLoop(d \o <<0>>, i, <<>>, 0)

readNullString(d, i) == NullStringLoop(d, i, <<>>, 0)


(***************************************************************************)
(* The cursor on its own: any sequence of calls on a buffer.               *)
(***************************************************************************)

MaxLen == 5         \* longest buffer of the cursor specification
MaxIndex == 9       \* calls that would move the index beyond are not made
MaxRewind == 2      \* largest offset given to rewind
CursorBytes == {0, 97}

RECURSIVE SeqsUpTo(_, _)
SeqsUpTo(S, n) ==
    IF n = 0 THEN {<<>>}
    ELSE LET shorter == SeqsUpTo(S, n - 1)
         IN  shorter \cup {Append(q, x) : q \in {t \in shorter : Len(t) = n - 1},
                                          x \in S}

CursorBuffers == SeqsUpTo(CursorBytes, MaxLen)

NoCall == [op |-> "none", n |-> 0, before |-> 0, ok |-> TRUE, val |-> <<>>,
           err |-> "none", got |-> 0]

\* The record of a call.  val is the value returned, always as a sequence: the
\* byte string of read, remaining and readNullString, <<value>> for an integer
\* of up to 32 bits, <<high word, low word>> for readUI64, <<>> when the call
\* raised.
Called(opname, n, i, r) ==
    [op |-> opname, n |-> n, before |-> i, ok |-> r.ok,
     val |-> IF ~r.ok THEN <<>>
             ELSE IF opname \in {"readUI8", "readUI16", "readUI32"} THEN <<r.val>>
             ELSE r.val,
     err |-> r.err, got |-> r.got]

\* RawDataIterator(data): index = 0.
InitCursor ==
    /\ data \in CursorBuffers
    /\ index = 0
    /\ last = NoCall
    /\ pc = <<"cursor", "idle">>
    /\ err = "none"
    /\ box = <<>>
    /\ cur = <<>>
    /\ result = PyNone
    /\ order = <<>>
    /\ consumed = 0
    /\ lastTerm = -1
    /\ phase = 1

DecoderUnchanged ==
    UNCHANGED <<data, pc, err, box, cur, result, order, consumed, lastTerm, phase>>

Call(opname, n, r) ==
    /\ pc = <<"cursor", "idle">>
    /\ r.idx <= MaxIndex
    /\ index' = r.idx
    /\ last' = Called(opname, n, index, r)
    /\ DecoderUnchanged

Call_readUI2  == Call("readUI2", 0, readUI2(data, index))
Call_readUI8  == Call("readUI8", 1, readUI8(data, index))
Call_readUI16 == Call("readUI16", 2, readUI16(data, index))
Call_readUI32 == Call("readUI32", 4, readUI32(data, index))
Call_readUI64 == Call("readUI64", 8, readUI64(data, index))
Call_readNullString == Call("readNullString", 0, readNullString(data, index))
Call_read == \E size \in 0..MaxLen : Call("read", size, read(data, index, size))
Call_remaining == Call("remaining", 0, remaining(data, index))

\* resetTo(index) and rewind(offset): plain assignments to the index.
Call_resetTo ==
    \E position \in 0..MaxLen :
        /\ pc = <<"cursor", "idle">>
        /\ index' = position
        /\ last' = [NoCall EXCEPT !.op = "resetTo", !.n = position, !.before = index]
        /\ DecoderUnchanged

Call_rewind ==
    \E offset \in 0..MaxRewind :
        /\ pc = <<"cursor", "idle">>
        /\ index - offset >= -MaxLen - 1
        /\ index' = index - offset
        /\ last' = [NoCall EXCEPT !.op = "rewind", !.n = offset, !.before = index]
        /\ DecoderUnchanged

NextCursor ==
    \/ Call_readUI2
    \/ Call_readUI8
    \/ Call_readUI16
    \/ Call_readUI32
    \/ Call_readUI64
    \/ Call_readNullString
    \/ Call_read
    \/ Call_remaining

SpecCursor == InitCursor /\ [][NextCursor]_vars

NextReposition == NextCursor \/ Call_resetTo \/ Call_rewind

SpecReposition == InitCursor /\ [][NextReposition]_vars


(***************************************************************************)
(* The buffers given to the decoder.  A buffer is laid out field by field  *)
(* in the order the constructors read it; a mutation then makes it         *)
(* malformed: a size field of 1 (the marker of the 64-bit extended size),  *)
(* a count that declares one entry more than the buffer holds, a count of  *)
(* 2^24 or of 0x7f7f7f7f, some bytes cut off the end, or only the first    *)
(* bytes kept.                                                             *)
(***************************************************************************)

MaxStr == 1         \* longest string laid out
MaxEntries == 2     \* most entries laid out in one table
MaxBoxes == 2       \* most nested boxes of one kind
MaxCut == 2         \* most bytes cut off the end

ExtendedSizeMarker == 1

\* Buffers that end in the size, in the type, before the type's last byte,
\* in the flags and before the one-byte field after bootstrapInfoVersion.
KeepLengths == {0, 3, 4, 7, 10, 16}

U8(v) == <<v>>
U32(v) == <<(v \div 16777216) % 256, (v \div 65536) % 256, (v \div 256) % 256,
            v % 256>>
U64(v) == <<0, 0, 0, 0>> \o U32(v)
CString(s) == s \o <<0>>

RECURSIVE Flatten(_)
Flatten(parts) ==
    IF parts = <<>> THEN <<>> ELSE parts[1] \o Flatten(Tail(parts))

\* The k-th string of a table: strings of different lengths and letters.
StringOf(len, letter) == [x \in 1..len |-> letter]
EntryString(p, k) == StringOf((p + k) % (MaxStr + 1), 97 + k)
StringTable(c, p) == Flatten([k \in 1..c |-> CString(EntryString(p, k))])

Mutations ==
    {[kind |-> "none", what |-> "", k |-> 0]}
    \cup {[kind |-> "ext", what |-> w, k |-> 0] : w \in {"top", "seg", "frag"}}
    \cup {[kind |-> "cut", what |-> "", k |-> n] : n \in 1..MaxCut}
    \cup {[kind |-> "keep", what |-> "", k |-> n] : n \in KeepLengths}
    \cup {[kind |-> "bump", what |-> w, k |-> 0] :
            w \in {"server", "quality", "segbox", "fragbox", "segmod", "segentry",
                   "fragmod", "fragentry"}}
    \cup {[kind |-> k, what |-> w, k |-> 0] :
            k \in {"huge", "vast"}, w \in {"segentry", "fragentry"}}

\* The count a table declares.
Declared(w, n, m) == IF m.kind = "bump" /\ m.what = w THEN n + 1 ELSE n
Declared32(w, n, m) ==
    CASE m.kind = "huge" /\ m.what = w -> <<1, 0, 0, 0>>
      [] m.kind = "vast" /\ m.what = w -> <<127, 127, 127, 127>>
      [] OTHER -> U32(Declared(w, n, m))

\* size and type of a box; the size field is the marker under the mutation.
BoxHeaderBytes(w, body, type, m) ==
    (IF m.kind = "ext" /\ m.what = w THEN U32(ExtendedSizeMarker)
     ELSE U32(Len(body) + 8)) \o type

\* 'asrt': version, flags, quality modifiers, segment run entries.
SegmentBoxBytes(j, c, p, m) ==
    LET nmod == (c + j) % (MaxEntries + 1)
        nent == (c + j + 1) % (MaxEntries + 1)
        body == U8(0) \o <<0, 0, 0>>
                \o U8(Declared("segmod", nmod, m)) \o StringTable(nmod, p)
                \o Declared32("segentry", nent, m)
                \o Flatten([k \in 1..nent |-> U32(k) \o U32(5)])
    IN  BoxHeaderBytes("seg", body, <<97, 115, 114, 116>>, m) \o body

\* 'afrt': version, flags, timescale, quality modifiers, fragment run entries;
\* an entry of duration 0 carries one more byte.
FragmentDuration(j, k) == IF (j + k) % 2 = 0 THEN 0 ELSE 120
FragmentBoxBytes(j, c, p, m) ==
    LET nmod == (c + j + 1) % (MaxEntries + 1)
        nent == (c + j) % (MaxEntries + 1)
        body == U8(0) \o <<0, 0, 0>> \o U32(100)
                \o U8(Declared("fragmod", nmod, m)) \o StringTable(nmod, p)
                \o Declared32("fragentry", nent, m)
                \o Flatten([k \in 1..nent |->
                      U32(k) \o U64(10 * k) \o U32(FragmentDuration(j, k))
                      \o (IF FragmentDuration(j, k) = 0 THEN U8(k) ELSE <<>>)])
    IN  BoxHeaderBytes("frag", body, <<97, 102, 114, 116>>, m) \o body

\* 'abst': the bootstrap info box.
BootstrapBytes(c, p, nseg, nfrag, m) ==
    LET body == U8(1) \o <<0, 0, 0>> \o U32(2) \o <<32>> \o U32(100) \o U64(90)
                \o U64(0)
                \o CString(StringOf(p, 109))
                \o U8(Declared("server", c, m)) \o StringTable(c, p)
                \o U8(Declared("quality", MaxEntries - c, m))
                \o StringTable(MaxEntries - c, p + 1)
                \o CString(<<>>)
                \o CString(StringOf(MaxStr - p, 100))
                \o U8(Declared("segbox", nseg, m))
                \o Flatten([j \in 1..nseg |-> SegmentBoxBytes(j, c, p, m)])
                \o U8(Declared("fragbox", nfrag, m))
                \o Flatten([j \in 1..nfrag |-> FragmentBoxBytes(j, c, p, m)])
        whole == BoxHeaderBytes("top", body, <<97, 98, 115, 116>>, m) \o body
    IN  CASE m.kind = "cut" -> SubSeq(whole, 1, Len(whole) - m.k)
          [] m.kind = "keep" -> SubSeq(whole, 1, m.k)
          [] OTHER -> whole

\* c entries in the first table; the strings' lengths follow from c.  The
\* well-formed buffers hold any number of nested boxes of each kind, the
\* malformed ones as many of one kind as of the other.
Inputs ==
    {BootstrapBytes(c, c % (MaxStr + 1), nseg, nfrag,
                    [kind |-> "none", what |-> "", k |-> 0]) :
        c \in 0..MaxEntries, nseg \in 0..MaxBoxes, nfrag \in 0..MaxBoxes}
    \cup {BootstrapBytes(c, c % (MaxStr + 1), n, n, m) :
            c \in 0..MaxEntries, n \in 0..MaxBoxes, m \in Mutations}


(***************************************************************************)
(* The decoder: one action per statement of the constructors.  pc is       *)
(* <<box, statement>>, box being "top", "seg" or "frag".                   *)
(*                                                                         *)
(* An object is a function from the names of the attributes assigned so    *)
(* far to their values.  Three history attributes are kept beside the      *)
(* program's own: "start" (the index at which the box began), "end" (the   *)
(* index at which it was complete) and "spans" (for each table, the index  *)
(* of its count field, the index after it and the index at which its loop  *)
(* was left, -1 until then).                                               *)
(***************************************************************************)

Set(obj, name, value) == (name :> value) @@ obj
Has(obj, name) == name \in DOMAIN obj
Without(obj, name) == [x \in DOMAIN obj \ {name} |-> obj[x]]

NewObject == "spans" :> <<>>
SpanFrom(obj, table, at, i) ==
    Set(obj, "spans", (table :> [at |-> at, from |-> i, to |-> -1]) @@ obj.spans)
SpanTo(obj, table, i) ==
    Set(obj, "spans", [obj.spans EXCEPT ![table].to = i])

\* F4VBox.__init__, lines 94-98: a box given a RawDataIterator reads on through
\* it; a box given anything else wraps it in a new iterator (index 0).
MutBoxCursorAlwaysNew(isIterator) == 0

BoxCursor(isIterator) == IF isIterator THEN index ELSE 0

Terminal == pc[2] \in {"done", "failed"}

\* One read of the decoder: r is the outcome of the cursor method, tag the
\* schema field the read belongs to; the attribute is assigned and the decoder
\* moves on when the method returned, and the exception ends the decode when it
\* raised.
Step(opname, n, from, r, tag, nextPc, newBox, newCur) ==
    /\ last' = Called(opname, n, from, r)
    /\ index' = r.idx
    /\ order' = IF order # <<>> /\ order[Len(order)] = tag THEN order
                ELSE Append(order, tag)
    /\ consumed' = consumed + (IF r.ok THEN r.got ELSE 0)
    /\ lastTerm' = IF opname = "readNullString" /\ r.ok THEN r.idx - 1 ELSE lastTerm
    /\ IF r.ok
       THEN /\ pc' = nextPc
            /\ box' = newBox
            /\ cur' = newCur
            /\ err' = err
       ELSE /\ pc' = <<pc[1], "failed">>
            /\ err' = r.err
            /\ UNCHANGED <<box, cur>>
    /\ UNCHANGED <<data, result, phase>>

\* The test of a for loop that ends the loop.
Leave(nextPc, newBox, newCur) ==
    /\ pc' = nextPc
    /\ box' = newBox
    /\ cur' = newCur
    /\ UNCHANGED <<data, index, last, err, result, order, consumed, lastTerm, phase>>

\* The object a statement of box b assigns to, and the schema field it is in.
Self(b) == IF b = "top" THEN box ELSE cur
TagOf(b, tag) ==
    CASE b = "top" -> tag
      [] b = "seg" -> "segmentRunTableEntries"
      [] b = "frag" -> "fragmentRunTableEntries"
Assign(b, name, r, tag, nextLabel, opname, n) ==
    Step(opname, n, index, r, TagOf(b, tag), <<b, nextLabel>>,
         IF b = "top" THEN Set(box, name, r.val) ELSE box,
         IF b = "top" THEN cur ELSE Set(cur, name, r.val))

\* F4VBox.__init__ (lines 93-105), shared by the three boxes.
F4VBox_size ==
    \E b \in {"top", "seg", "frag"} :
        /\ pc = <<b, "size">>
        /\ LET at == BoxCursor(b # "top")
               r == readUI32(data, at)
           IN  Step("readUI32", 4, at, r, TagOf(b, "header"), <<b, "type">>,
                    IF b = "top" THEN Set(Set(box, "size", r.val), "start", at)
                    ELSE box,
                    IF b = "top" THEN cur
                    ELSE Set(Set(cur, "size", r.val), "start", at))

F4VBox_type ==
    \E b \in {"top", "seg", "frag"} :
        /\ pc = <<b, "type">>
        /\ Assign(b, "type", read(data, index, 4), "header", "version", "read", 4)

\* Lines 111, 159, 188.
Box_version ==
    \E b \in {"top", "seg", "frag"} :
        /\ pc = <<b, "version">>
        /\ Assign(b, "version", readUI8(data, index), "scalars", "flags",
                  "readUI8", 1)

\* Lines 113, 160, 189.
Box_flags ==
    \E b \in {"top", "seg", "frag"} :
        /\ pc = <<b, "flags">>
        /\ Assign(b, "flags", read(data, index, 3), "scalars",
                  CASE b = "top" -> "boostrapInfoVersion"
                    [] b = "seg" -> "qualityEntryCount"
                    [] b = "frag" -> "timeScale",
                  "read", 3)

\* F4VBootstrapInfoBox.__init__, lines 114-120.
Bootstrap_boostrapInfoVersion ==
    /\ pc = <<"top", "boostrapInfoVersion">>
    /\ Assign("top", "boostrapInfoVersion", readUI32(data, index), "scalars",
              "boh", "readUI32", 4)

Bootstrap_boh ==
    /\ pc = <<"top", "boh">>
    /\ Assign("top", "boh", read(data, index, 1), "scalars", "timescale", "read", 1)

Bootstrap_timescale ==
    /\ pc = <<"top", "timescale">>
    /\ Assign("top", "timescale", readUI32(data, index), "scalars",
              "currentMediaTime", "readUI32", 4)

Bootstrap_currentMediaTime ==
    /\ pc = <<"top", "currentMediaTime">>
    /\ Assign("top", "currentMediaTime", readUI64(data, index), "scalars",
              "SmpteTimeCodeOffset", "readUI64", 8)

Bootstrap_SmpteTimeCodeOffset ==
    /\ pc = <<"top", "SmpteTimeCodeOffset">>
    /\ Assign("top", "SmpteTimeCodeOffset", readUI64(data, index), "scalars",
              "movieIdentifier", "readUI64", 8)

Bootstrap_movieIdentifier ==
    /\ pc = <<"top", "movieIdentifier">>
    /\ Assign("top", "movieIdentifier", readNullString(data, index),
              "movieIdentifier", "serverEntryCount", "readNullString", 0)


\* The longest list range() is taken to build on every machine: 2^24 integers
\* take about half a gigabyte in CPython 2.  A longer one may not fit.
RangeListLimit == 16777216

\* for x in range(count): Python 2 builds the list of count integers when the
\* loop is entered (no pass made yet), which raises MemoryError when the list
\* does not fit in memory; the loop then makes one pass per item of the list.
\* The set of ways the statement can go on after passes passes.
ForRange(passes, count) ==
    {IF passes < count THEN "body" ELSE "exit"}
    \cup (IF passes = 0 /\ count > RangeListLimit THEN {"MemoryError"} ELSE {})

\* An exception raised by a statement that is no call of the cursor.
Raise(e) ==
    /\ pc' = <<pc[1], "failed">>
    /\ err' = e
    /\ UNCHANGED <<data, index, last, box, cur, result, order, consumed, lastTerm,
                   phase>>

\* A count field and the empty table that follows it.
AssignCount(b, countName, tableName, r, tag, opname, n) ==
    LET obj == SpanFrom(Set(Set(Self(b), countName, r.val), tableName, <<>>),
                        tableName, index, r.idx)
    IN  Step(opname, n, index, r, TagOf(b, tag), <<b, tableName>>,
             IF b = "top" THEN obj ELSE box,
             IF b = "top" THEN cur ELSE obj)

\* for x in range(count): table.append(readNullString())
StringLoop(b, countName, tableName, tag, nextLabel) ==
    /\ pc = <<b, tableName>>
    /\ \E o \in ForRange(Len(Self(b)[tableName]), Self(b)[countName]) :
           CASE o = "body" ->
                  LET r == readNullString(data, index)
                      obj == [Self(b) EXCEPT ![tableName] = Append(@, r.val)]
                  IN  Step("readNullString", 0, index, r, TagOf(b, tag), pc,
                           IF b = "top" THEN obj ELSE box,
                           IF b = "top" THEN cur ELSE obj)
             [] o = "exit" ->
                  Leave(<<b, nextLabel>>,
                        IF b = "top" THEN SpanTo(box, tableName, index) ELSE box,
                        IF b = "top" THEN cur ELSE SpanTo(cur, tableName, index))
             [] OTHER -> Raise(o)

\* Lines 121-127.
Bootstrap_serverEntryCount ==
    /\ pc = <<"top", "serverEntryCount">>
    /\ AssignCount("top", "serverEntryCount", "serverEntryTable",
                   readUI8(data, index), "serverEntryTable", "readUI8", 1)

Bootstrap_serverEntryTable ==
    StringLoop("top", "serverEntryCount", "serverEntryTable", "serverEntryTable",
               "qualityEntryCount")

\* Lines 129-135.
Bootstrap_qualityEntryCount ==
    /\ pc = <<"top", "qualityEntryCount">>
    /\ AssignCount("top", "qualityEntryCount", "qualityEntryTable",
                   readUI8(data, index), "qualityEntryTable", "readUI8", 1)

Bootstrap_qualityEntryTable ==
    StringLoop("top", "qualityEntryCount", "qualityEntryTable", "qualityEntryTable",
               "drmData")

\* Lines 137-138.
Bootstrap_drmData ==
    /\ pc = <<"top", "drmData">>
    /\ Assign("top", "drmData", readNullString(data, index), "drmData",
              "metadata", "readNullString", 0)

Bootstrap_metadata ==
    /\ pc = <<"top", "metadata">>
    /\ Assign("top", "metadata", readNullString(data, index), "metadata",
              "segmentRunTableCount", "readNullString", 0)

\* Lines 139-145: each F4VSegmentRunTableBox is given self.raw_data.
Bootstrap_segmentRunTableCount ==
    /\ pc = <<"top", "segmentRunTableCount">>
    /\ AssignCount("top", "segmentRunTableCount", "segmentRunTableEntries",
                   readUI8(data, index), "segmentRunTableEntries", "readUI8", 1)

Bootstrap_segmentRunTableEntries ==
    /\ pc = <<"top", "segmentRunTableEntries">>
    /\ \E o \in ForRange(Len(box.segmentRunTableEntries),
                          box.segmentRunTableCount) :
           CASE o = "body" -> Leave(<<"seg", "size">>, box, NewObject)
             [] o = "exit" ->
                  Leave(<<"top", "fragmentRunTableCount">>,
                        SpanTo(box, "segmentRunTableEntries", index), cur)
             [] OTHER -> Raise(o)

\* Lines 147-153: each F4VFragmentRunTableBox is given self.raw_data; when the
\* loop ends the constructor returns and Manifest.__init__ (line 220) keeps the box.
Bootstrap_fragmentRunTableCount ==
    /\ pc = <<"top", "fragmentRunTableCount">>
    /\ AssignCount("top", "fragmentRunTableCount", "fragmentRunTableEntries",
                   readUI8(data, index), "fragmentRunTableEntries", "readUI8", 1)

Bootstrap_fragmentRunTableEntries ==
    /\ pc = <<"top", "fragmentRunTableEntries">>
    /\ \E o \in ForRange(Len(box.fragmentRunTableEntries),
                          box.fragmentRunTableCount) :
           CASE o = "body" -> Leave(<<"frag", "size">>, box, NewObject)
             [] o = "exit" ->
                  /\ pc' = <<"top", "done">>
                  /\ box' = Set(SpanTo(box, "fragmentRunTableEntries", index),
                                "end", index)
                  /\ result' = PyObject("F4VBootstrapInfoBox", box')
                  /\ UNCHANGED <<data, index, last, err, cur, order, consumed,
                                 lastTerm, phase>>
             [] OTHER -> Raise(o)

\* Lines 161-165 and 191-195: the quality modifiers of a nested box.
Box_qualityEntryCount ==
    \E b \in {"seg", "frag"} :
        /\ pc = <<b, "qualityEntryCount">>
        /\ AssignCount(b, "qualityEntryCount", "qualitySegmentURLModifiers",
                       readUI8(data, index), "", "readUI8", 1)

Box_qualitySegmentURLModifiers ==
    \E b \in {"seg", "frag"} :
        StringLoop(b, "qualityEntryCount", "qualitySegmentURLModifiers", "",
                   IF b = "seg" THEN "segmentRunEntryCount"
                   ELSE "fragmentRunEntryCount")

\* F4VSegmentRunTableBox.__init__, lines 167-182.
Segment_segmentRunEntryCount ==
    /\ pc = <<"seg", "segmentRunEntryCount">>
    /\ AssignCount("seg", "segmentRunEntryCount", "segmentRunEntryTable",
                   readUI32(data, index), "", "readUI32", 4)

Segment_segmentRunEntryTable ==
    /\ pc = <<"seg", "segmentRunEntryTable">>
    /\ \E o \in ForRange(Len(cur.segmentRunEntryTable), cur.segmentRunEntryCount) :
           CASE o = "body" ->
                  Leave(<<"seg", "first_segment">>, box, Set(cur, "d", <<>>))
             [] o = "exit" ->
                  Leave(<<"top", "segmentRunTableEntries">>,
                        [box EXCEPT !.segmentRunTableEntries =
                            Append(@, Set(Without(SpanTo(cur,
                                "segmentRunEntryTable", index), "d"), "end", index))],
                        <<>>)
             [] OTHER -> Raise(o)

Segment_first_segment ==
    /\ pc = <<"seg", "first_segment">>
    /\ LET r == readUI32(data, index)
       IN  Step("readUI32", 4, index, r, "segmentRunTableEntries",
                <<"seg", "fragments_per_segment">>, box,
                Set(cur, "d", Set(cur.d, "first_segment", r.val)))

Segment_fragments_per_segment ==
    /\ pc = <<"seg", "fragments_per_segment">>
    /\ LET r == readUI32(data, index)
           entry == [first_segment |-> cur.d.first_segment,
                     fragments_per_segment |-> r.val]
       IN  Step("readUI32", 4, index, r, "segmentRunTableEntries",
                <<"seg", "segmentRunEntryTable">>, box,
                [cur EXCEPT !.segmentRunEntryTable = Append(@, entry)])

\* F4VFragmentRunTableBox.__init__, lines 190-208.
Fragment_timeScale ==
    /\ pc = <<"frag", "timeScale">>
    /\ Assign("frag", "timeScale", readUI32(data, index), "", "qualityEntryCount",
              "readUI32", 4)

Fragment_fragmentRunEntryCount ==
    /\ pc = <<"frag", "fragmentRunEntryCount">>
    /\ AssignCount("frag", "fragmentRunEntryCount", "fragmentRunEntryTable",
                   readUI32(data, index), "", "readUI32", 4)

\* d = {} (with the index at which the entry begins as history).
Fragment_fragmentRunEntryTable ==
    /\ pc = <<"frag", "fragmentRunEntryTable">>
    /\ \E o \in ForRange(Len(cur.fragmentRunEntryTable),
                          cur.fragmentRunEntryCount) :
           CASE o = "body" ->
                  Leave(<<"frag", "first_fragment">>, box,
                        Set(cur, "d", "from" :> index))
             [] o = "exit" ->
                  Leave(<<"top", "fragmentRunTableEntries">>,
                        [box EXCEPT !.fragmentRunTableEntries =
                            Append(@, Set(Without(SpanTo(cur,
                                "fragmentRunEntryTable", index), "d"), "end", index))],
                        <<>>)
             [] OTHER -> Raise(o)

FragmentField(name, r, nextLabel, opname, n) ==
    Step(opname, n, index, r, "fragmentRunTableEntries", <<"frag", nextLabel>>,
         box, Set(cur, "d", Set(cur.d, name, r.val)))

Fragment_first_fragment ==
    /\ pc = <<"frag", "first_fragment">>
    /\ FragmentField("first_fragment", readUI32(data, index),
                     "first_fragment_timestamp", "readUI32", 4)

Fragment_first_fragment_timestamp ==
    /\ pc = <<"frag", "first_fragment_timestamp">>
    /\ FragmentField("first_fragment_timestamp", readUI64(data, index),
                     "fragment_duration", "readUI64", 8)

Fragment_fragment_duration ==
    /\ pc = <<"frag", "fragment_duration">>
    /\ FragmentField("fragment_duration", readUI32(data, index),
                     "discontinuity_indicator", "readUI32", 4)

\* Line 205 ends in a comma: the value assigned is the 1-tuple of the
\* conditional expression.  Line 208 appends d to the table.
DiscontinuityValue(x) == PyTuple(<<x>>)

Fragment_discontinuity_indicator ==
    /\ pc = <<"frag", "discontinuity_indicator">>
    /\ \/ /\ cur.d.fragment_duration = 0
          /\ LET r == readUI8(data, index)
                 d == Set(Set(cur.d, "discontinuity_indicator",
                              DiscontinuityValue(PyInt(r.val))), "to", r.idx)
             IN  Step("readUI8", 1, index, r, "fragmentRunTableEntries",
                      <<"frag", "fragmentRunEntryTable">>, box,
                      [cur EXCEPT !.fragmentRunEntryTable = Append(@, d)])
       \/ /\ cur.d.fragment_duration # 0
          /\ LET d == Set(Set(cur.d, "discontinuity_indicator",
                              DiscontinuityValue(PyNone)), "to", index)
             IN  Leave(<<"frag", "fragmentRunEntryTable">>, box,
                       [cur EXCEPT !.fragmentRunEntryTable = Append(@, d)])

\* Manifest.__init__, line 220, on the buffer that ends one byte before the
\* last string terminator the successful decode consumed.
DecodeTruncated ==
    /\ pc = <<"top", "done">>
    /\ phase = 1
    /\ lastTerm >= 0
    /\ data' = SubSeq(data, 1, lastTerm)
    /\ index' = 0
    /\ last' = NoCall
    /\ pc' = <<"top", "size">>
    /\ err' = "none"
    /\ box' = NewObject
    /\ cur' = <<>>
    /\ result' = PyNone
    /\ order' = <<>>
    /\ consumed' = 0
    /\ lastTerm' = -1
    /\ phase' = 2

\* F4VBootstrapInfoBox(bytes): a new RawDataIterator on the buffer.
Init ==
    /\ data \in Inputs
    /\ index = 0
    /\ last = NoCall
    /\ pc = <<"top", "size">>
    /\ err = "none"
    /\ box = NewObject
    /\ cur = <<>>
    /\ result = PyNone
    /\ order = <<>>
    /\ consumed = 0
    /\ lastTerm = -1
    /\ phase = 1

Next ==
    \/ F4VBox_size
    \/ F4VBox_type
    \/ Box_version
    \/ Box_flags
    \/ Bootstrap_boostrapInfoVersion
    \/ Bootstrap_boh
    \/ Bootstrap_timescale
    \/ Bootstrap_currentMediaTime
    \/ Bootstrap_SmpteTimeCodeOffset
    \/ Bootstrap_movieIdentifier
    \/ Bootstrap_serverEntryCount
    \/ Bootstrap_serverEntryTable
    \/ Bootstrap_qualityEntryCount
    \/ Bootstrap_qualityEntryTable
    \/ Bootstrap_drmData
    \/ Bootstrap_metadata
    \/ Bootstrap_segmentRunTableCount
    \/ Bootstrap_segmentRunTableEntries
    \/ Bootstrap_fragmentRunTableCount
    \/ Bootstrap_fragmentRunTableEntries
    \/ Box_qualityEntryCount
    \/ Box_qualitySegmentURLModifiers
    \/ Segment_segmentRunEntryCount
    \/ Segment_segmentRunEntryTable
    \/ Segment_first_segment
    \/ Segment_fragments_per_segment
    \/ Fragment_timeScale
    \/ Fragment_fragmentRunEntryCount
    \/ Fragment_fragmentRunEntryTable
    \/ Fragment_first_fragment
    \/ Fragment_first_fragment_timestamp
    \/ Fragment_fragment_duration
    \/ Fragment_discontinuity_indicator
    \/ DecodeTruncated

Spec == Init /\ [][Next]_vars

\* The constructor runs to its end: no step of it is put off for ever.
FairSpec == Init /\ [][Next]_vars /\ WF_vars(Next)


(***************************************************************************)
(* The claims about the cursor, under SpecCursor.                          *)
(***************************************************************************)

ReadOps == {"readUI8", "readUI16", "readUI32", "readUI64", "read",
            "readNullString"}
OutOfBoundsErrors == {"IndexError", "struct.error"}

\* C1: a read that fails because the buffer does not hold the bytes it needs
\* leaves the index where it was before the call.
C1_FailedReadKeepsIndex ==
    (last.op \in ReadOps /\ ~last.ok) => index = last.before

\* C2: whatever reads were made from a fresh cursor, 0 <= index <= len(data).
C2_IndexWithinBuffer == 0 <= index /\ index <= Len(data)

\* C3: read(n) returns exactly n bytes or fails with an out-of-bounds error.
C3_ReadExactlyOrFail ==
    last.op = "read" =>
        \/ last.ok /\ Len(last.val) = last.n
        \/ ~last.ok /\ last.err \in OutOfBoundsErrors

\* Position of the first 0x00 at or after position i (counted from 0), -1 if none.
FirstZero(d, i) ==
    IF \E j \in i..(Len(d) - 1) : d[j + 1] = 0
    THEN CHOOSE j \in i..(Len(d) - 1) :
             d[j + 1] = 0 /\ \A x \in i..(j - 1) : d[x + 1] # 0
    ELSE -1

\* C5: readNullString called at index i returns data[i..j-1] and leaves
\* index = j+1 when the first 0x00 at or after i is at j, and fails with the
\* out-of-range IndexError when there is none.
C5_ReadNullString ==
    last.op = "readNullString" =>
        LET j == FirstZero(data, last.before)
        IN  IF j # -1
            THEN /\ last.ok
                 /\ last.val = SubSeq(data, last.before + 1, j)
                 /\ index = j + 1
            ELSE /\ ~last.ok
                 /\ last.err = "IndexError"

\* A string of two bytes read from the middle of a buffer that goes on after
\* its terminator.
C5_Witness ==
    /\ last.op = "readNullString"
    /\ last.ok
    /\ last.before >= 1
    /\ Len(last.val) = 2
    /\ index < Len(data)


(***************************************************************************)
(* The claims about the decoder, under Spec.                               *)
(***************************************************************************)

Attr(obj, name, default) == IF Has(obj, name) THEN obj[name] ELSE default

\* The nested boxes decoded so far, the one under construction last.
SegmentBoxes ==
    Attr(box, "segmentRunTableEntries", <<>>)
    \o (IF Has(cur, "segmentRunEntryTable") THEN <<cur>> ELSE <<>>)
FragmentBoxes ==
    Attr(box, "fragmentRunTableEntries", <<>>)
    \o (IF Has(cur, "fragmentRunEntryTable") THEN <<cur>> ELSE <<>>)

\* C4: an entry of duration 0 takes 17 bytes and its discontinuityIndicator is
\* the value of the 17th; an entry of another duration takes 16 bytes and its
\* discontinuityIndicator is None itself; the next entry begins where it ends.
C4_DiscontinuityIndicator ==
    \A b \in 1..Len(FragmentBoxes) :
        LET table == FragmentBoxes[b].fragmentRunEntryTable
        IN  \A k \in 1..Len(table) :
                LET e == table[k]
                IN  /\ k > 1 => e.from = table[k - 1].to
                    /\ IF e.fragment_duration = 0
                       THEN /\ e.to - e.from = 17
                            /\ e.discontinuity_indicator.type = "int"
                            /\ e.discontinuity_indicator.v = data[e.to]
                       ELSE /\ e.to - e.from = 16
                            /\ e.discontinuity_indicator.type = "NoneType"

\* C7: a box whose size field is the marker of the 64-bit extended size is
\* never decoded to a successful result.
HeaderSizes ==
    (IF Has(box, "size") THEN {box.size} ELSE {})
    \cup {SegmentBoxes[k].size : k \in 1..Len(SegmentBoxes)}
    \cup {FragmentBoxes[k].size : k \in 1..Len(FragmentBoxes)}
    \cup (IF Has(cur, "size") THEN {cur.size} ELSE {})

C7_ExtendedSizeRejected ==
    pc = <<"top", "done">> => ExtendedSizeMarker \notin HeaderSizes

(***************************************************************************)
(* C6: what a count-prefixed table must hold, read off the buffer.         *)
(***************************************************************************)

\* Position of the k-th 0x00 at or after position pos, -1 if there are fewer.
ZerosFrom(d, pos) == Cardinality({x \in pos..(Len(d) - 1) : d[x + 1] = 0})

NthZero(d, pos, k) ==
    LET kth(j) == /\ d[j + 1] = 0
                  /\ Cardinality({x \in pos..(j - 1) : d[x + 1] = 0}) = k - 1
    IN  IF ZerosFrom(d, pos) < k THEN -1
        ELSE CHOOSE j \in pos..(Len(d) - 1) : kth(j)

\* c null-terminated strings from position pos: whether the buffer holds
\* them, and then the strings (the k-th ends at the k-th 0x00 at or after pos)
\* and the position after the last.
RefStringsOk(d, pos, c) == ZerosFrom(d, pos) >= c
RefStrings(d, pos, c) ==
    LET begin(k) == IF k = 1 THEN pos ELSE NthZero(d, pos, k - 1) + 1
    IN  [k \in 1..c |-> SubSeq(d, begin(k) + 1, NthZero(d, pos, k))]
RefStringsEnd(d, pos, c) == IF c = 0 THEN pos ELSE NthZero(d, pos, c) + 1

Word(d, pos) == BigEndian(SubSeq(d, pos + 1, pos + 4))

\* c segment run entries of 8 bytes from position pos.
RefSegmentEntries(d, pos, c) ==
    IF c = 0 THEN [ok |-> TRUE, items |-> <<>>, end |-> pos]
    ELSE IF pos > Len(d) \/ c > (Len(d) - pos) \div 8
         THEN [ok |-> FALSE, items |-> <<>>, end |-> pos]
         ELSE [ok |-> TRUE,
               items |-> [k \in 1..c |->
                           [first_segment |-> Word(d, pos + 8 * (k - 1)),
                            fragments_per_segment |->
                                Word(d, pos + 8 * (k - 1) + 4)]],
               end |-> pos + 8 * c]

\* c fragment run entries of 16 or 17 bytes from position pos: their durations
\* and the positions at which they end.
RECURSIVE RefFragmentEntries(_, _, _)
RefFragmentEntries(d, pos, c) ==
    IF c = 0 THEN [ok |-> TRUE, items |-> <<>>, end |-> pos]
    ELSE IF pos + 16 > Len(d) THEN [ok |-> FALSE, items |-> <<>>, end |-> pos]
         ELSE LET dur == Word(d, pos + 12)
                  size == IF dur = 0 THEN 17 ELSE 16
              IN  IF pos + size > Len(d)
                  THEN [ok |-> FALSE, items |-> <<>>, end |-> pos]
                  ELSE LET rest == RefFragmentEntries(d, pos + size, c - 1)
                       IN  [ok |-> rest.ok,
                            items |-> <<[first_fragment |-> Word(d, pos),
                                         fragment_duration |-> dur,
                                         to |-> pos + size]>> \o rest.items,
                            end |-> rest.end]

FragmentEntryMatches(e, ref) ==
    /\ e.first_fragment = ref.first_fragment
    /\ e.fragment_duration = ref.fragment_duration
    /\ e.to = ref.to

\* The table tableName of obj against what the buffer holds for the declared
\* count (refOk: it holds that many entries; refEnd: where they end): never
\* more entries than declared; once the loop is left, exactly the declared
\* entries in buffer order, and nothing consumed beyond
\* them (nothing but the count field when the count is 0); when the buffer
\* holds fewer entries than declared the loop is never left and the decode
\* ends in an out-of-bounds error.
TableOK(obj, countName, tableName, countSize, refOk, refEnd, matches) ==
    Has(obj, tableName) =>
        LET sp == obj.spans[tableName]
            c == obj[countName]
        IN  /\ sp.from = sp.at + countSize
            /\ Len(obj[tableName]) <= c
            /\ sp.to # -1 =>
                   /\ refOk
                   /\ matches
                   /\ sp.to = refEnd
                   /\ c = 0 => (obj[tableName] = <<>> /\ sp.to = sp.from)
            /\ ~refOk =>
                   /\ sp.to = -1
                   /\ Terminal => (pc[2] = "failed" /\ err \in OutOfBoundsErrors)

StringTableOK(obj, countName, tableName) ==
    Has(obj, tableName) =>
        LET from == obj.spans[tableName].from
            c == obj[countName]
        IN  TableOK(obj, countName, tableName, 1, RefStringsOk(data, from, c),
                    RefStringsEnd(data, from, c),
                    obj[tableName] = RefStrings(data, from, c))

SegmentEntriesOK(obj) ==
    Has(obj, "segmentRunEntryTable") =>
        LET ref == RefSegmentEntries(data, obj.spans["segmentRunEntryTable"].from,
                                     obj.segmentRunEntryCount)
        IN  TableOK(obj, "segmentRunEntryCount", "segmentRunEntryTable", 4,
                    ref.ok, ref.end, obj.segmentRunEntryTable = ref.items)

FragmentEntriesOK(obj) ==
    Has(obj, "fragmentRunEntryTable") =>
        LET ref == RefFragmentEntries(data,
                                      obj.spans["fragmentRunEntryTable"].from,
                                      obj.fragmentRunEntryCount)
            table == obj.fragmentRunEntryTable
        IN  TableOK(obj, "fragmentRunEntryCount", "fragmentRunEntryTable", 4,
                    ref.ok, ref.end,
                    /\ Len(table) = Len(ref.items)
                    /\ \A k \in 1..Len(table) :
                           FragmentEntryMatches(table[k], ref.items[k]))

\* A list of nested boxes: box k begins where the count field or box k-1 ends.
BoxListOK(countName, tableName) ==
    Has(box, tableName) =>
        LET sp == box.spans[tableName]
            c == box[countName]
            list == box[tableName]
        IN  /\ sp.from = sp.at + 1
            /\ Len(list) <= c
            /\ \A k \in 1..Len(list) :
                   list[k].start = (IF k = 1 THEN sp.from ELSE list[k - 1].end)
            /\ sp.to # -1 =>
                   /\ Len(list) = c
                   /\ sp.to = (IF c = 0 THEN sp.from ELSE list[c].end)
            /\ (Terminal /\ sp.to = -1) =>
                   (pc[2] = "failed" /\ err \in OutOfBoundsErrors)

\* C6: every count-prefixed table: count 0 gives the empty sequence and
\* consumes the count field alone; count c with the entries present gives
\* exactly the c entries in buffer order; a count larger than what the buffer
\* holds makes the decode fail with an out-of-bounds error.
C6_CountPrefixedTables ==
    /\ StringTableOK(box, "serverEntryCount", "serverEntryTable")
    /\ StringTableOK(box, "qualityEntryCount", "qualityEntryTable")
    /\ BoxListOK("segmentRunTableCount", "segmentRunTableEntries")
    /\ BoxListOK("fragmentRunTableCount", "fragmentRunTableEntries")
    /\ \A k \in 1..Len(SegmentBoxes) :
           /\ StringTableOK(SegmentBoxes[k], "qualityEntryCount",
                            "qualitySegmentURLModifiers")
           /\ SegmentEntriesOK(SegmentBoxes[k])
    /\ \A k \in 1..Len(FragmentBoxes) :
           /\ StringTableOK(FragmentBoxes[k], "qualityEntryCount",
                            "qualitySegmentURLModifiers")
           /\ FragmentEntriesOK(FragmentBoxes[k])
    /\ (pc[1] \in {"seg", "frag"} /\ Has(cur, "qualitySegmentURLModifiers")) =>
           StringTableOK(cur, "qualityEntryCount", "qualitySegmentURLModifiers")

\* A successful decode with a table of two strings, an empty table and two
\* nested boxes of each kind, with tables of two entries and of one.
C6_Witness ==
    /\ pc = <<"top", "done">>
    /\ box.serverEntryCount = 2
    /\ box.serverEntryTable[1] # box.serverEntryTable[2]
    /\ box.qualityEntryCount = 0
    /\ box.segmentRunTableCount = 2
    /\ box.fragmentRunTableCount = 2
    /\ \E k \in 1..2 : Len(box.segmentRunTableEntries[k].segmentRunEntryTable) = 2
    /\ \E k \in 1..2 : Len(box.fragmentRunTableEntries[k].fragmentRunEntryTable) = 1


\* C8: the decode of a successfully decoded buffer cut one byte before its last
\* string terminator never succeeds: it ends in the out-of-range IndexError, and
\* no box, complete or partial, is handed over (on any failure).
C8_TruncatedDecodeFails ==
    /\ phase = 2 =>
           /\ pc[2] # "done"
           /\ Terminal => (pc[2] = "failed" /\ err = "IndexError")
    /\ pc[2] # "done" => result.type = "NoneType"
    /\ pc[2] = "done" => (err = "none" /\ result.type = "F4VBootstrapInfoBox")

\* The truncated decode has failed inside a fragment run table box, after a
\* complete segment run table box.
C8_Witness ==
    /\ phase = 2
    /\ pc = <<"frag", "failed">>
    /\ err = "IndexError"
    /\ Len(box.segmentRunTableEntries) >= 1
    /\ result.type = "NoneType"

\* The schema of the bootstrap info box.
SchemaOrder ==
    <<"header", "scalars", "movieIdentifier", "serverEntryTable",
      "qualityEntryTable", "drmData", "metadata", "segmentRunTableEntries",
      "fragmentRunTableEntries">>

\* The index at which the nested box under construction had to begin: where
\* the count field of its list ended, or where the box before it ended.
ExpectedStart(tableName) ==
    LET list == box[tableName]
    IN  IF list = <<>> THEN box.spans[tableName].from ELSE list[Len(list)].end

C9_OneCursorInv ==
    /\ order = SubSeq(SchemaOrder, 1, Len(order))
    /\ \A t \in {"segmentRunTableEntries", "fragmentRunTableEntries"} :
           Has(box, t) =>
               \A k \in 1..Len(box[t]) :
                   /\ box[t][k].start =
                          (IF k = 1 THEN box.spans[t].from ELSE box[t][k - 1].end)
                   /\ box[t][k].start <= box[t][k].end
    /\ (pc[1] = "seg" /\ Has(cur, "start")) =>
           cur.start = ExpectedStart("segmentRunTableEntries")
    /\ (pc[1] = "frag" /\ Has(cur, "start")) =>
           cur.start = ExpectedStart("fragmentRunTableEntries")
    /\ pc = <<"top", "done">> =>
           /\ order = SchemaOrder
           /\ box.start = 0
           /\ index = box.end
           /\ index = consumed

\* C9: one cursor serves the top-level box and all nested boxes: the fields
\* are read in schema order, the index never decreases during a decode, the
\* k-th nested box begins exactly where the field or box before it ended, and
\* on success the final index is the number of bytes the fields consumed.
C9_OneCursor ==
    /\ []C9_OneCursorInv
    /\ [][phase' = phase => index' >= index]_vars

\* A successful decode with two nested boxes of each kind.
C9_Witness ==
    /\ pc = <<"top", "done">>
    /\ Len(box.segmentRunTableEntries) = 2
    /\ Len(box.fragmentRunTableEntries) = 2
    /\ box.segmentRunTableEntries[2].start > box.segmentRunTableEntries[1].start
    /\ index = Len(data)

(***************************************************************************)
(* C10, under FairSpec.                                                    *)
(***************************************************************************)

RECURSIVE SumLen(_, _)
SumLen(boxes, tableName) ==
    IF boxes = <<>> THEN 0
    ELSE Len(boxes[1][tableName]) + SumLen(Tail(boxes), tableName)

\* The strings and table entries the decode has produced so far.
Produced ==
    Cardinality({f \in {"movieIdentifier", "drmData", "metadata"} : Has(box, f)})
    + Len(Attr(box, "serverEntryTable", <<>>))
    + Len(Attr(box, "qualityEntryTable", <<>>))
    + SumLen(Attr(box, "segmentRunTableEntries", <<>>), "qualitySegmentURLModifiers")
    + SumLen(Attr(box, "segmentRunTableEntries", <<>>), "segmentRunEntryTable")
    + SumLen(Attr(box, "fragmentRunTableEntries", <<>>), "qualitySegmentURLModifiers")
    + SumLen(Attr(box, "fragmentRunTableEntries", <<>>), "fragmentRunEntryTable")
    + Len(Attr(cur, "qualitySegmentURLModifiers", <<>>))
    + Len(Attr(cur, "segmentRunEntryTable", <<>>))
    + Len(Attr(cur, "fragmentRunEntryTable", <<>>))

C10_BoundedInv ==
    /\ pc[2] = "failed" => err \in OutOfBoundsErrors
    /\ (last.op \in ReadOps /\ last.ok) => index >= last.before + 1
    /\ (last.op \in ReadOps \ {"read"} /\ last.ok) =>
           (last.got = index - last.before /\ index <= Len(data))
    /\ Produced <= Len(data)
    /\ Produced <= consumed

\* C10: the decode of any buffer ends, in success or in a decode error (the
\* out-of-bounds error of a read), whatever the counts it declares: every read
\* that returns has moved the index forward by at least one byte, a string or
\* table entry is only produced from bytes the buffer holds, and so there are
\* never more of them than bytes in the buffer.
C10_Terminates ==
    /\ []C10_BoundedInv
    /\ (pc = <<"top", "size">>) ~> Terminal

\* A table that declares 2^24 entries in a buffer that holds one of them: the
\* decode has ended in an error after producing that one.
C10_Witness ==
    /\ pc = <<"seg", "failed">>
    /\ Has(cur, "segmentRunEntryTable")
    /\ cur.segmentRunEntryCount = 16777216
    /\ Len(cur.segmentRunEntryTable) >= 1
    /\ err = "struct.error"

==========================================================================
